---- MODULE Spec2Model ----
(***************************************************************************)
(* Model of the Mandelbrot engine of src/lib.rs: CoordRange, Complex,      *)
(* RowCol and Mand.                                                        *)
(*                                                                         *)
(* f64 values are modelled as extended rationals [n, d]: d > 0 is the      *)
(* finite value n/d in lowest terms, 1/0 is +inf, -1/0 is -inf and 0/0 is  *)
(* NaN.  Finite arithmetic is exact; every finite value an escape-time     *)
(* loop of the model meets is an integer of small magnitude, on which      *)
(* IEEE-754 double arithmetic is exact as well.  Signed zeros are not      *)
(* distinguished (they compare equal in the code).                         *)
(*                                                                         *)
(* The u32 iteration counter keeps a width, CounterBits, scaled down from  *)
(* 32; the 800 x 800 grid and the budget of 200 are scaled down too.       *)
(***************************************************************************)
EXTENDS Integers, Sequences, FiniteSets, TLC

VARIABLES
    pc,        \* control point of the running call
    args,      \* Mand::new's arguments [x_min, x_max, y_min, y_max]
    x_range,   \* CoordRange of the real axis
    y_range,   \* CoordRange of the imaginary axis
    p,         \* pixel index of the map over 0..width*height
    rc,        \* the RowCol of the pixel being mapped
    self,      \* in_mand's receiver, the point c
    iters,     \* in_mand's budget parameter
    z,         \* in_mand's local z
    iter,      \* in_mand's local counter (u32)
    ret,       \* in_mand's return value
    updates,   \* history: number of updates z <- z*z + c of the running call
    overflow,  \* history: iter += 1 was executed with iter at the u32 maximum
    pixels,    \* the Vec<Pixel> being collected
    mand,      \* the constructed Mand, NoMand before construction returns
    prev,      \* the previous completed construction (arguments and Mand)
    obs        \* what the last accessor call returned

vars == <<pc, args, x_range, y_range, p, rc, self, iters, z, iter, ret,
          updates, overflow, pixels, mand, prev, obs>>

----------------------------------------------------------------------------
(* Bounds *)

\* side of the square pixel grid of Mand::new (800 in the code)
GridSide == 4
\* iteration budget Mand::new passes to in_mand (200 in the code)
EngineIters == 2
\* width in bits of the u32 counter iter (32 in the code)
CounterBits == 3
\* largest grid dimension given to RowCol::from_index on its own
MaxDim == 5
\* largest coordinate magnitude of the points given to in_mand on its own
PointRadius == 2

U32_MAX == 2^CounterBits - 1

\* the history counter updates saturates here
UpdatesCap == U32_MAX + 3

----------------------------------------------------------------------------
(* f64 *)

Abs(n) == IF n < 0 THEN -n ELSE n

Sign(n) == IF n < 0 THEN -1 ELSE IF n > 0 THEN 1 ELSE 0

RECURSIVE GCD(_, _)
GCD(a, b) == IF b = 0 THEN a ELSE GCD(b, a % b)

\* n/d with d >= 0, in lowest terms; n/0 is an infinity or NaN
Reduce(n, d) ==
    IF d = 0 THEN [n |-> Sign(n), d |-> 0]
    ELSE LET g == GCD(Abs(n), d) IN [n |-> n \div g, d |-> d \div g]

\* Reduce, its two arguments evaluated once
Norm(n0, d0) == CHOOSE v \in {Reduce(n, d) : n \in {n0}, d \in {d0}} : TRUE

\* an integer as f64 (the cast u32 as f64, and integer literals)
F(k) == [n |-> k, d |-> 1]

Rat(n, d) == Norm(n, d)

PosInf == [n |-> 1, d |-> 0]
NegInf == [n |-> -1, d |-> 0]
NaN == [n |-> 0, d |-> 0]

IsNaN(x) == x.d = 0 /\ x.n = 0
IsFinite(x) == x.d > 0

FNeg(x) == [n |-> -x.n, d |-> x.d]

FMul(x, y) == Norm(x.n * y.n, x.d * y.d)

FAdd(x, y) ==
    IF x.d = 0 /\ y.d = 0
    THEN (IF x = y THEN x ELSE NaN)
    ELSE Norm(x.n * y.d + y.n * x.d, x.d * y.d)

FSub(x, y) == FAdd(x, FNeg(y))

FDiv(x, y) ==
    LET n == x.n * y.d
        d == x.d * y.n
    IN  IF d < 0 THEN Norm(-n, -d) ELSE Norm(n, d)

\* IEEE comparisons: every comparison with NaN is false
FLt(x, y) ==
    /\ ~IsNaN(x)
    /\ ~IsNaN(y)
    /\ IF x.d = 0 /\ y.d = 0 THEN x.n < y.n ELSE x.n * y.d < y.n * x.d

FGt(x, y) == FLt(y, x)

FLe(x, y) == ~IsNaN(x) /\ ~IsNaN(y) /\ ~FLt(y, x)

FEq(x, y) == ~IsNaN(x) /\ ~IsNaN(y) /\ x = y

----------------------------------------------------------------------------
(* Pixel *)

Out == 0
In == 1

----------------------------------------------------------------------------
(* CoordRange *)

\* a plausible slip: the assertion made strict
CoordRange_assert_strict(min, max) == FLt(min, max)

\* assert!(min <= max)
CoordRange_assert(min, max) == FLe(min, max)

CoordRange_new(min, max) == [min |-> min, max |-> max]

size(range) == FSub(range.max, range.min)

get_position_by_portion(range, portion) ==
    FAdd(FMul(portion, size(range)), range.min)

----------------------------------------------------------------------------
(* Complex *)

Complex_new(r, i) == [r |-> r, i |-> i]

dist_squared(c) == FAdd(FMul(c.r, c.r), FMul(c.i, c.i))

square(c) ==
    [r |-> FSub(FMul(c.r, c.r), FMul(c.i, c.i)),
     i |-> FMul(FMul(F(2), c.r), c.i)]

plus(a, c) == [r |-> FAdd(a.r, c.r), i |-> FAdd(a.i, c.i)]

\* a plausible slip: >= in the escape test
Escapes_ge(w) == FLe(F(4), dist_squared(w))

\* z.dist_squared() > 4.0
Escapes(w) == FGt(dist_squared(w), F(4))

\* a plausible slip: >= in the budget test
BudgetExhausted_ge(it, budget) == it >= budget

\* iter > *iters
BudgetExhausted(it, budget) == it > budget

\* a plausible slip: the counter is not reset on entry
IterStale == iter

\* let mut iter: u32 = 0
IterInit == 0

\* a plausible slip: the increment is lost
IterStuck(it) == it

\* iter += 1, below the u32 maximum
IterNext(it) == it + 1

\* let mut z = Complex::new(0.0, 0.0)
ZInit == Complex_new(F(0), F(0))

\* what iter += 1 does at the u32 maximum: a debug build panics, a release
\* build wraps
Builds == {"debug", "release"}

\* the iterates of in_mand: z_0 = (0, 0), z_k = z_(k-1)^2 + c
RECURSIVE Orbit(_, _)
Orbit(c, k) == IF k = 0 THEN ZInit ELSE plus(square(Orbit(c, k - 1)), c)

\* entry of in_mand(&self, iters): the locals are initialised
InMandEnter(c, budget) ==
    /\ self' = c
    /\ iters' = budget
    /\ iter' = IterInit
    /\ z' = ZInit
    /\ updates' = 0
    /\ ret' = FALSE
    /\ pc' = "in_mand"

\* one pass of in_mand's loop
InMandPass ==
    /\ pc = "in_mand"
    /\ \E w \in {plus(square(z), self)} :
        /\ z' = w
        /\ updates' = IF updates < UpdatesCap THEN updates + 1 ELSE updates
        /\ IF Escapes(w)
           THEN /\ ret' = FALSE
                /\ pc' = "in_mand_ret"
                /\ UNCHANGED <<iter, overflow>>
           ELSE IF BudgetExhausted(iter, iters)
           THEN /\ ret' = TRUE
                /\ pc' = "in_mand_ret"
                /\ UNCHANGED <<iter, overflow>>
           ELSE IF iter < U32_MAX
           THEN /\ iter' = IterNext(iter)
                /\ UNCHANGED <<ret, pc, overflow>>
           ELSE \E build \in Builds :
                /\ overflow' = TRUE
                /\ ret' = ret
                /\ IF build = "debug"
                   THEN pc' = "panicked" /\ iter' = iter
                   ELSE pc' = pc /\ iter' = 0
    /\ UNCHANGED <<args, x_range, y_range, p, rc, self, iters, pixels, mand,
                   prev, obs>>

----------------------------------------------------------------------------
(* Initial values *)

NoMand == [tag |-> "none"]
NoRun == [tag |-> "none"]
NoObs == [fn |-> "none"]

InitWith(start) ==
    /\ pc = start
    /\ args = [x_min |-> F(0), x_max |-> F(0), y_min |-> F(0), y_max |-> F(0)]
    /\ x_range = CoordRange_new(F(0), F(0))
    /\ y_range = CoordRange_new(F(0), F(0))
    /\ p = 0
    /\ rc = [width |-> 1, height |-> 1, row |-> 0, col |-> 0]
    /\ self = Complex_new(F(0), F(0))
    /\ iters = 0
    /\ z = Complex_new(F(0), F(0))
    /\ iter = 0
    /\ ret = FALSE
    /\ updates = 0
    /\ overflow = FALSE
    /\ pixels = <<>>
    /\ mand = NoMand
    /\ prev = NoRun
    /\ obs = NoObs

----------------------------------------------------------------------------
(* in_mand on its own, as tests::test_mand calls it *)

LatticePoints ==
    {Complex_new(F(a), F(b)) : a, b \in (-PointRadius)..PointRadius}

SpecialPoints ==
    {Complex_new(NaN, F(0)), Complex_new(NaN, F(3)), Complex_new(PosInf, F(0)),
     Complex_new(F(0), NegInf), Complex_new(PosInf, NegInf)}

Points == LatticePoints \cup SpecialPoints

Budgets == 0..U32_MAX

TestInMand ==
    /\ pc = "test"
    /\ \E c \in Points, budget \in Budgets : InMandEnter(c, budget)
    /\ UNCHANGED <<args, x_range, y_range, p, rc, overflow, pixels, mand,
                   prev, obs>>

InitInMand == InitWith("test")

NextInMand == TestInMand \/ InMandPass

SpecInMand == InitInMand /\ [][NextInMand]_vars

Returned == pc = "in_mand_ret"

\* some iterate among the first k has squared magnitude > 4.0
SomeIterateEscapes(c, k) ==
    \E j \in 1..k : FGt(dist_squared(Orbit(c, j)), F(4))

\* C3 as stated: a point is In once it survived iters + 1 escape checks, and
\* the loop performs at most iters + 1 updates.
C3_BudgetPlusOne ==
    pc \in {"in_mand", "in_mand_ret"} =>
        /\ updates <= iters + 1
        /\ (Returned /\ ret) => updates = iters + 1

\* C3 as amended: whenever in_mand returns true it has performed exactly
\* iters + 2 updates, every one of which passed the escape check, and its
\* counter stands at iters + 1.
C3_BudgetPlusTwo ==
    (Returned /\ ret) =>
        /\ updates = iters + 2
        /\ iter = iters + 1
        /\ ~SomeIterateEscapes(self, updates)

C3_Witness == Returned /\ ret /\ iters >= 1 /\ updates = iters + 2

C10_NoOverflow == ~overflow /\ pc # "panicked"

----------------------------------------------------------------------------
(* RowCol *)

\* a plausible slip: the two fields exchanged
from_index_swapped(index, w, h) ==
    [width |-> w, height |-> h, row |-> index % h, col |-> index \div w]

\* the conventional row-major decoding, row = index / width
from_index_by_width(index, w, h) ==
    [width |-> w, height |-> h, row |-> index \div w, col |-> index % w]

from_index(index, w, h) ==
    [width |-> w, height |-> h, row |-> index \div h, col |-> index % w]

\* a plausible slip: the axes exchanged
to_complex_swapped(rowcol, r_range, i_range) ==
    LET r_portion == FDiv(F(rowcol.row), F(rowcol.height))
        i_portion == FDiv(F(rowcol.col), F(rowcol.width))
    IN  [r |-> get_position_by_portion(r_range, r_portion),
         i |-> get_position_by_portion(i_range, i_portion)]

to_complex(rowcol, r_range, i_range) ==
    LET r_portion == FDiv(F(rowcol.col), F(rowcol.width))
        i_portion == FDiv(F(rowcol.row), F(rowcol.height))
        r_position == get_position_by_portion(r_range, r_portion)
        i_position == get_position_by_portion(i_range, i_portion)
    IN  [r |-> r_position, i |-> i_position]

----------------------------------------------------------------------------
(* RowCol and CoordRange on their own, as tests::test_rowcol calls them *)

Dims == 1..MaxDim

RangeVals == {NegInf, F(-2), Rat(-3, 2), F(1), PosInf, NaN}

TestFromIndex ==
    /\ pc = "test"
    /\ \E w \in Dims, h \in Dims :
        \E index \in 0..(w * h - 1) :
            /\ rc' = from_index(index, w, h)
            /\ p' = index
    /\ pc' = "rowcol"
    /\ UNCHANGED <<args, x_range, y_range, self, iters, z, iter, ret, updates,
                   overflow, pixels, mand, prev, obs>>

TestCoordRange ==
    /\ pc = "rowcol"
    /\ \E r_min \in RangeVals, r_max \in RangeVals,
          i_min \in RangeVals, i_max \in RangeVals :
        IF CoordRange_assert(r_min, r_max) /\ CoordRange_assert(i_min, i_max)
        THEN /\ x_range' = CoordRange_new(r_min, r_max)
             /\ y_range' = CoordRange_new(i_min, i_max)
             /\ pc' = "ranges"
        ELSE /\ pc' = "aborted"
             /\ UNCHANGED <<x_range, y_range>>
    /\ UNCHANGED <<args, p, rc, self, iters, z, iter, ret, updates, overflow,
                   pixels, mand, prev, obs>>

TestToComplex ==
    /\ pc = "ranges"
    /\ self' = to_complex(rc, x_range, y_range)
    /\ pc' = "complex"
    /\ UNCHANGED <<args, x_range, y_range, p, rc, iters, z, iter, ret, updates,
                   overflow, pixels, mand, prev, obs>>

InitRowCol == InitWith("test")

NextRowCol == TestFromIndex \/ TestCoordRange \/ TestToComplex

SpecRowCol == InitRowCol /\ [][NextRowCol]_vars

\* a portion lies in [0, 1)
InUnit(x) == FLe(F(0), x) /\ FLt(x, F(1))

\* the portions and the point the claim names, from the index itself
C7_r_portion == FDiv(F(p % rc.width), F(rc.width))
C7_i_portion == FDiv(F(p \div rc.height), F(rc.height))
C7_point ==
    Complex_new(
        FAdd(x_range.min, FMul(C7_r_portion, FSub(x_range.max, x_range.min))),
        FAdd(y_range.min, FMul(C7_i_portion, FSub(y_range.max, y_range.min))))

\* C7 as stated: for every in-range index of every grid, both portions lie
\* in [0, 1), the point is (min + portion * size) per axis with the column on
\* the real axis, and row 0, col 0 maps exactly to the minimum corner.
C7_ToComplex ==
    pc = "complex" =>
        /\ InUnit(C7_r_portion)
        /\ InUnit(C7_i_portion)
        /\ self = C7_point
        /\ (rc.row = 0 /\ rc.col = 0) =>
              (FEq(self.r, x_range.min) /\ FEq(self.i, y_range.min))

\* C7 as amended: the real portion always lies in [0, 1), the imaginary
\* portion does when width <= height; the point is (min + portion * size)
\* per axis; row 0, col 0 maps exactly to the minimum corner when both
\* ranges have a finite size.
C7_ToComplexAmended ==
    pc = "complex" =>
        /\ InUnit(C7_r_portion)
        /\ (rc.width <= rc.height) => InUnit(C7_i_portion)
        /\ self = C7_point
        /\ (rc.row = 0 /\ rc.col = 0 /\ IsFinite(size(x_range))
              /\ IsFinite(size(y_range))) =>
              (FEq(self.r, x_range.min) /\ FEq(self.i, y_range.min))

\* a pixel off both axes of a square grid, mapped through two finite ranges
C7_Witness ==
    /\ pc = "complex"
    /\ rc.width = rc.height
    /\ rc.row > 0
    /\ rc.col > rc.row
    /\ IsFinite(size(x_range)) /\ size(x_range) # F(0)
    /\ IsFinite(size(y_range)) /\ size(y_range) # F(0)
    /\ IsFinite(self.r) /\ IsFinite(self.i)

\* every in-range index decodes to its row-major place
Faithful(w, h) ==
    \A q \in 0..(w * h - 1) :
        LET r == from_index(q, w, h)
        IN  q = r.row * w + r.col /\ r.row < h /\ r.col < w

\* C8: from_index is a faithful row-major decoding of a width x height grid
\* exactly when width = height.
C8_FaithfulIffSquare ==
    pc # "test" => (Faithful(rc.width, rc.height) <=> rc.width = rc.height)

C8_Witness ==
    /\ pc = "rowcol"
    /\ rc.width > rc.height
    /\ rc.height > 1
    /\ p # rc.row * rc.width + rc.col

----------------------------------------------------------------------------
(* Mand *)

width == GridSide
height == GridSide

\* a plausible slip: the map stops one index early
NumPixelsShort == width * height - 1

\* the range 0..width * height of the map
NumPixels == width * height

\* if in_mand { Pixel::In } else { Pixel::Out }
PixelOf(b) == IF b THEN In ELSE Out

\* viewport bounds a caller passes: the size of a finite viewport is 0 or the
\* grid side, so every mapped point is an integer
ArgVals == {F(-2), F(GridSide - 2), PosInf, NaN}

\* entry of Mand::new(x_min, x_max, y_min, y_max)
MandNewEnter ==
    /\ \E x_min \in ArgVals, x_max \in ArgVals,
          y_min \in ArgVals, y_max \in ArgVals :
        args' = [x_min |-> x_min, x_max |-> x_max,
                 y_min |-> y_min, y_max |-> y_max]
    /\ mand' = NoMand
    /\ pixels' = <<>>
    /\ p' = 0
    /\ obs' = NoObs
    /\ pc' = "ranges"
    /\ UNCHANGED <<x_range, y_range, rc, self, iters, z, iter, ret, updates,
                   overflow>>

\* a caller calls Mand::new for the first time
MandNew ==
    /\ pc = "idle"
    /\ MandNewEnter
    /\ prev' = prev

\* a caller that holds an engine calls Mand::new again; the engine it holds
\* is remembered as prev
MandNewAgain ==
    /\ pc = "done"
    /\ MandNewEnter
    /\ prev' = [tag |-> "run", args |-> args, mand |-> mand]

\* let x_range = CoordRange::new(x_min, x_max);
\* let y_range = CoordRange::new(y_min, y_max);
NewRanges ==
    /\ pc = "ranges"
    /\ IF /\ CoordRange_assert(args.x_min, args.x_max)
          /\ CoordRange_assert(args.y_min, args.y_max)
       THEN /\ x_range' = CoordRange_new(args.x_min, args.x_max)
            /\ y_range' = CoordRange_new(args.y_min, args.y_max)
            /\ pc' = "loop"
       ELSE /\ pc' = "aborted"
            /\ UNCHANGED <<x_range, y_range>>
    /\ UNCHANGED <<args, p, rc, self, iters, z, iter, ret, updates, overflow,
                   pixels, mand, prev, obs>>

\* the closure of the map is entered for index p
PixelBegin ==
    /\ pc = "loop"
    /\ p < NumPixels
    /\ LET r == from_index(p, width, height)
       IN  /\ rc' = r
           /\ InMandEnter(to_complex(r, x_range, y_range), EngineIters)
    /\ UNCHANGED <<args, x_range, y_range, p, overflow, pixels, mand, prev,
                   obs>>

\* the closure returns the pixel of index p, which collect() stores
PixelEnd ==
    /\ pc = "in_mand_ret"
    /\ pixels' = Append(pixels, PixelOf(ret))
    /\ p' = p + 1
    /\ pc' = "loop"
    /\ UNCHANGED <<args, x_range, y_range, rc, self, iters, z, iter, ret,
                   updates, overflow, mand, prev, obs>>

\* Mand { width, height, pixels } is returned
Collect ==
    /\ pc = "loop"
    /\ p >= NumPixels
    /\ mand' = [tag |-> "mand", width |-> width, height |-> height,
                pixels |-> pixels]
    /\ pc' = "done"
    /\ UNCHANGED <<args, x_range, y_range, p, rc, self, iters, z, iter, ret,
                   updates, overflow, pixels, prev, obs>>

Mand_width ==
    /\ pc = "done"
    /\ obs' = [fn |-> "width", val |-> mand.width]
    /\ UNCHANGED <<pc, args, x_range, y_range, p, rc, self, iters, z, iter,
                   ret, updates, overflow, pixels, mand, prev>>

Mand_height ==
    /\ pc = "done"
    /\ obs' = [fn |-> "height", val |-> mand.height]
    /\ UNCHANGED <<pc, args, x_range, y_range, p, rc, self, iters, z, iter,
                   ret, updates, overflow, pixels, mand, prev>>

\* the pointer pixels() returns, as the buffer read through it
Mand_pixels ==
    /\ pc = "done"
    /\ obs' = [fn |-> "pixels", val |-> mand.pixels]
    /\ UNCHANGED <<pc, args, x_range, y_range, p, rc, self, iters, z, iter,
                   ret, updates, overflow, pixels, mand, prev>>

Init == InitWith("idle")

Next ==
    \/ MandNew
    \/ MandNewAgain
    \/ NewRanges
    \/ PixelBegin
    \/ InMandPass
    \/ PixelEnd
    \/ Collect
    \/ Mand_width
    \/ Mand_height
    \/ Mand_pixels

Spec == Init /\ [][Next]_vars

\* one call of Mand::new and the accessor calls that follow it
NextOnce ==
    \/ MandNew
    \/ NewRanges
    \/ PixelBegin
    \/ InMandPass
    \/ PixelEnd
    \/ Collect
    \/ Mand_width
    \/ Mand_height
    \/ Mand_pixels

\* Mand::new is one synchronous call: once entered, it keeps running
LiveSpec ==
    /\ Init
    /\ [][NextOnce]_vars
    /\ WF_vars(NewRanges)
    /\ WF_vars(PixelBegin)
    /\ WF_vars(InMandPass)
    /\ WF_vars(PixelEnd)
    /\ WF_vars(Collect)

----------------------------------------------------------------------------
(* Properties of the engine *)

Constructed == mand # NoMand

\* C1: a constructed engine's buffer has exactly width * height elements,
\* each of them Out (0) or In (1), and the accessors report that shape,
\* whatever accessor calls were made.
C1_BufferShape ==
    /\ Constructed =>
        /\ mand.width = GridSide
        /\ mand.height = GridSide
        /\ Len(mand.pixels) = mand.width * mand.height
        /\ \A q \in 1..Len(mand.pixels) : mand.pixels[q] \in {0, 1}
    /\ obs.fn = "width" => obs.val = mand.width
    /\ obs.fn = "height" => obs.val = mand.height
    /\ obs.fn = "pixels" =>
        /\ Len(obs.val) = mand.width * mand.height
        /\ obs.val = mand.pixels

\* an engine holding pixels of both values, read through pixels()
C1_Witness ==
    /\ Constructed
    /\ obs.fn = "pixels"
    /\ \E q \in 1..Len(mand.pixels) : mand.pixels[q] = In
    /\ \E q \in 1..Len(mand.pixels) : mand.pixels[q] = Out

\* the point of the pixel at (row, col) of the running construction
PointAt(row, col) ==
    Complex_new(
        FAdd(x_range.min,
             FMul(FDiv(F(col), F(GridSide)), FSub(x_range.max, x_range.min))),
        FAdd(y_range.min,
             FMul(FDiv(F(row), F(GridSide)), FSub(y_range.max, y_range.min))))

\* the class of a point under the engine's budget: In exactly when none of
\* its first EngineIters + 2 iterates has squared magnitude above 4.0
ClassOf(c) == IF SomeIterateEscapes(c, EngineIters + 2) THEN Out ELSE In

\* C2: on the engine's square grid every index p decodes to row = p div n,
\* col = p mod n, inside the grid, with p = row * width + col; distinct
\* indices decode to distinct pairs; and buffer position p holds the class
\* of the pixel at (p div n, p mod n), when it is written and in the
\* finished buffer.
C2_RowMajor ==
    /\ pc \in {"in_mand", "in_mand_ret"} =>
        /\ rc.row = p \div GridSide
        /\ rc.col = p % GridSide
        /\ rc.row < height
        /\ rc.col < width
        /\ p = rc.row * width + rc.col
        /\ self = PointAt(p \div GridSide, p % GridSide)
    /\ pc = "ranges" =>
        \A q1, q2 \in 0..(GridSide * GridSide - 1) :
            LET r1 == from_index(q1, width, height)
                r2 == from_index(q2, width, height)
            IN  q1 # q2 => <<r1.row, r1.col>> # <<r2.row, r2.col>>
    /\ (pc = "loop" /\ p > 0) =>
        /\ Len(pixels) = p
        /\ pixels[p] =
              ClassOf(PointAt((p - 1) \div GridSide, (p - 1) % GridSide))
    /\ pc = "done" =>
        \A q \in 1..Len(pixels) :
            pixels[q] =
                ClassOf(PointAt((q - 1) \div GridSide, (q - 1) % GridSide))

\* a finished buffer of a finite viewport whose rows differ and whose
\* columns differ
C2_Witness ==
    /\ pc = "done"
    /\ IsFinite(size(x_range))
    /\ IsFinite(size(y_range))
    /\ \E q \in 1..GridSide : pixels[q] # pixels[q + GridSide]
    /\ \E q \in 1..(GridSide - 1) : pixels[q + GridSide] # pixels[q + GridSide + 1]

Called == pc \notin {"idle", "ranges"}

\* C5: Mand::new aborts, with no pixel classified and no engine produced,
\* when x_min > x_max or y_min > y_max; with x_min <= x_max and
\* y_min <= y_max it never aborts, and it ends with a full buffer.
C5_AbortOnBadRange ==
    Called =>
        /\ (FGt(args.x_min, args.x_max) \/ FGt(args.y_min, args.y_max)) =>
              /\ pc = "aborted"
              /\ pixels = <<>>
              /\ p = 0
              /\ ~Constructed
        /\ (FLe(args.x_min, args.x_max) /\ FLe(args.y_min, args.y_max)) =>
              /\ pc \notin {"aborted", "panicked"}
              /\ x_range = CoordRange_new(args.x_min, args.x_max)
              /\ y_range = CoordRange_new(args.y_min, args.y_max)
              /\ pc = "done" =>
                    (Constructed /\ Len(mand.pixels) = GridSide * GridSide)

\* a construction that succeeded on a degenerate viewport, min = max
C5_Witness ==
    /\ pc = "done"
    /\ Constructed
    /\ FEq(args.x_min, args.x_max)
    /\ FLt(args.y_min, args.y_max)

\* C6: a construction with the bounds of the previous one produces the same
\* pixels, index by index, and in the end the same width, height and buffer.
C6_SameBoundsSameBuffer ==
    (prev # NoRun /\ Called /\ pc # "aborted" /\ prev.args = args) =>
        /\ Len(pixels) <= Len(prev.mand.pixels)
        /\ \A q \in 1..Len(pixels) : pixels[q] = prev.mand.pixels[q]
        /\ Constructed => mand = prev.mand

\* two finished constructions with the same bounds, the buffer holding both
\* pixel values
C6_Witness ==
    /\ prev # NoRun
    /\ pc = "done"
    /\ prev.args = args
    /\ \E q \in 1..Len(pixels) : pixels[q] = In
    /\ \E q \in 1..Len(pixels) : pixels[q] = Out

C9_Safe ==
    /\ pc # "panicked"
    /\ pc = "aborted" => (pixels = <<>> /\ p = 0)
    /\ pc \in {"ranges", "loop", "in_mand", "in_mand_ret", "aborted"} =>
          (~Constructed /\ obs = NoObs)
    /\ pc = "done" => (Constructed /\ Len(mand.pixels) = NumPixels)
    /\ obs.fn = "pixels" => Len(obs.val) = GridSide * GridSide

\* C9: every call of Mand::new ends either aborted, before the pixel loop
\* has started, or done with all width * height pixels classified; nothing
\* aborts inside the pixel loop and no accessor sees a partial buffer.
C9_EndsAbortedOrDone ==
    /\ []C9_Safe
    /\ [][pc' = "aborted" => pc = "ranges"]_vars
    /\ (pc = "ranges") ~> (pc \in {"aborted", "done"})

C9_Witness ==
    /\ pc = "done"
    /\ \E q \in 1..Len(mand.pixels) : mand.pixels[q] = In
    /\ obs.fn = "pixels"
    /\ Len(obs.val) = GridSide * GridSide

====
